---- MODULE Spec2Model ----
(***************************************************************************)
(* The registry constants table of client-sdk/ts-web/core/src/registry.ts. *)
(*                                                                         *)
(* The module is a list of `export const` declarations.  Evaluating the    *)
(* module binds them one after the other, in source order; a declaration   *)
(* whose initializer names an earlier binding takes that binding's value.  *)
(* Once the module is evaluated, consumers import the bindings and read    *)
(* them.  String values are TLA+ strings, integers are integers.           *)
(***************************************************************************)
EXTENDS Integers, Sequences, FiniteSets, TLC

\* Number of consumers that read the table concurrently.
NumReaders == 2

\* Signature contexts (registry.ts:5-30).
REGISTER_ENTITY_SIGNATURE_CONTEXT == "oasis-core/registry: register entity"
REGISTER_GENESIS_ENTITY_SIGNATURE_CONTEXT == REGISTER_ENTITY_SIGNATURE_CONTEXT
\* The node context carrying the literal pasted from the entity context.
REGISTER_NODE_SIGNATURE_CONTEXT_Pasted == "oasis-core/registry: register entity"
REGISTER_NODE_SIGNATURE_CONTEXT == "oasis-core/registry: register node"
\* A genesis node context written out as a string of its own instead of a reference.
REGISTER_GENESIS_NODE_SIGNATURE_CONTEXT_Independent == "oasis-core/registry: register genesis node"
REGISTER_GENESIS_NODE_SIGNATURE_CONTEXT == REGISTER_NODE_SIGNATURE_CONTEXT

\* Method names (registry.ts:32-51).
METHOD_REGISTER_ENTITY == "registry.RegisterEntity"
METHOD_DEREGISTER_ENTITY == "registry.DeregisterEntity"
METHOD_REGISTER_NODE == "registry.RegisterNode"
\* A method name written without its module prefix.
METHOD_UNFREEZE_NODE_Bare == "UnfreezeNode"
METHOD_UNFREEZE_NODE == "registry.UnfreezeNode"
METHOD_REGISTER_RUNTIME == "registry.RegisterRuntime"

\* Gas operation identifiers (registry.ts:53-82).
GAS_OP_REGISTER_ENTITY == "register_entity"
GAS_OP_DEREGISTER_ENTITY == "deregister_entity"
\* The node registration gas operation carrying the entity literal.
GAS_OP_REGISTER_NODE_Pasted == "register_entity"
GAS_OP_REGISTER_NODE == "register_node"
GAS_OP_UNFREEZE_NODE == "unfreeze_node"
GAS_OP_REGISTER_RUNTIME == "register_runtime"
GAS_OP_RUNTIME_EPOCH_MAINTENANCE == "runtime_epoch_maintenance"
GAS_OP_UPDATEKEY_MANAGER == "update_keymanager"

\* Runtime kinds (registry.ts:84-95).
KIND_INVALID == 0
KIND_COMPUTE == 1
KIND_KEY_MANAGER == 2

\* Governance models (registry.ts:97-101).
GOVERNANCE_INVALID == 0
\* The first governance model numbered from zero, colliding with the sentinel.
GOVERNANCE_ENTITY_Zero == GOVERNANCE_INVALID
GOVERNANCE_ENTITY == 1
GOVERNANCE_RUNTIME == 2
GOVERNANCE_CONSENSUS == 3
\* The derived bound left on the previous last member.
GOVERNANCE_MAX_Stale == GOVERNANCE_RUNTIME
GOVERNANCE_MAX == GOVERNANCE_CONSENSUS

\* Latest runtime descriptor version (registry.ts:107).
\* The descriptor version left at the earlier schema.
LATEST_RUNTIME_DESCRIPTOR_VERSION_Old == 2 - 1
LATEST_RUNTIME_DESCRIPTOR_VERSION == 2

\* Module name and error codes (registry.ts:109-201).
MODULE_NAME == "registry"
CODE_INVALID_ARGUMENT == 1
CODE_INVALID_SIGNATURE == 2
CODE_BAD_ENTITY_FOR_NODE == 3
CODE_BAD_ENTITY_FOR_RUNTIME == 4
CODE_NO_ENCLAVE_FOR_RUNTIME == 5
CODE_BAD_ENCLAVE_IDENTITY == 6
CODE_BAD_CAPABILITIES_TEE_HARDWARE == 7
CODE_TEE_HARDWARE_MISMATCH == 8
CODE_NO_SUCH_ENTITY == 9
CODE_NO_SUCH_NODE == 10
CODE_NO_SUCH_RUNTIME == 11
CODE_INCORRECT_TX_SIGNER == 12
CODE_NODE_EXPIRED == 13
CODE_NODE_CANNOT_BE_UNFROZEN == 14
CODE_ENTITY_HAS_NODES == 15
CODE_FORBIDDEN == 16
CODE_NODE_UPDATE_NOT_ALLOWED == 17
CODE_RUNTIME_UPDATE_NOT_ALLOWED == 18
\* A newly appended code reusing the number of the code before it.
CODE_ENTITY_HAS_RUNTIMES_Reused == CODE_RUNTIME_UPDATE_NOT_ALLOWED
CODE_ENTITY_HAS_RUNTIMES == 19

\* The export list of the module, in declaration order.
Exports ==
    <<
       [name |-> "REGISTER_ENTITY_SIGNATURE_CONTEXT", value |-> REGISTER_ENTITY_SIGNATURE_CONTEXT],
       [name |-> "REGISTER_GENESIS_ENTITY_SIGNATURE_CONTEXT", value |-> REGISTER_GENESIS_ENTITY_SIGNATURE_CONTEXT],
       [name |-> "REGISTER_NODE_SIGNATURE_CONTEXT", value |-> REGISTER_NODE_SIGNATURE_CONTEXT],
       [name |-> "REGISTER_GENESIS_NODE_SIGNATURE_CONTEXT", value |-> REGISTER_GENESIS_NODE_SIGNATURE_CONTEXT],
       [name |-> "METHOD_REGISTER_ENTITY", value |-> METHOD_REGISTER_ENTITY],
       [name |-> "METHOD_DEREGISTER_ENTITY", value |-> METHOD_DEREGISTER_ENTITY],
       [name |-> "METHOD_REGISTER_NODE", value |-> METHOD_REGISTER_NODE],
       [name |-> "METHOD_UNFREEZE_NODE", value |-> METHOD_UNFREEZE_NODE],
       [name |-> "METHOD_REGISTER_RUNTIME", value |-> METHOD_REGISTER_RUNTIME],
       [name |-> "GAS_OP_REGISTER_ENTITY", value |-> GAS_OP_REGISTER_ENTITY],
       [name |-> "GAS_OP_DEREGISTER_ENTITY", value |-> GAS_OP_DEREGISTER_ENTITY],
       [name |-> "GAS_OP_REGISTER_NODE", value |-> GAS_OP_REGISTER_NODE],
       [name |-> "GAS_OP_UNFREEZE_NODE", value |-> GAS_OP_UNFREEZE_NODE],
       [name |-> "GAS_OP_REGISTER_RUNTIME", value |-> GAS_OP_REGISTER_RUNTIME],
       [name |-> "GAS_OP_RUNTIME_EPOCH_MAINTENANCE", value |-> GAS_OP_RUNTIME_EPOCH_MAINTENANCE],
       [name |-> "GAS_OP_UPDATEKEY_MANAGER", value |-> GAS_OP_UPDATEKEY_MANAGER],
       [name |-> "KIND_INVALID", value |-> KIND_INVALID],
       [name |-> "KIND_COMPUTE", value |-> KIND_COMPUTE],
       [name |-> "KIND_KEY_MANAGER", value |-> KIND_KEY_MANAGER],
       [name |-> "GOVERNANCE_INVALID", value |-> GOVERNANCE_INVALID],
       [name |-> "GOVERNANCE_ENTITY", value |-> GOVERNANCE_ENTITY],
       [name |-> "GOVERNANCE_RUNTIME", value |-> GOVERNANCE_RUNTIME],
       [name |-> "GOVERNANCE_CONSENSUS", value |-> GOVERNANCE_CONSENSUS],
       [name |-> "GOVERNANCE_MAX", value |-> GOVERNANCE_MAX],
       [name |-> "LATEST_RUNTIME_DESCRIPTOR_VERSION", value |-> LATEST_RUNTIME_DESCRIPTOR_VERSION],
       [name |-> "MODULE_NAME", value |-> MODULE_NAME],
       [name |-> "CODE_INVALID_ARGUMENT", value |-> CODE_INVALID_ARGUMENT],
       [name |-> "CODE_INVALID_SIGNATURE", value |-> CODE_INVALID_SIGNATURE],
       [name |-> "CODE_BAD_ENTITY_FOR_NODE", value |-> CODE_BAD_ENTITY_FOR_NODE],
       [name |-> "CODE_BAD_ENTITY_FOR_RUNTIME", value |-> CODE_BAD_ENTITY_FOR_RUNTIME],
       [name |-> "CODE_NO_ENCLAVE_FOR_RUNTIME", value |-> CODE_NO_ENCLAVE_FOR_RUNTIME],
       [name |-> "CODE_BAD_ENCLAVE_IDENTITY", value |-> CODE_BAD_ENCLAVE_IDENTITY],
       [name |-> "CODE_BAD_CAPABILITIES_TEE_HARDWARE", value |-> CODE_BAD_CAPABILITIES_TEE_HARDWARE],
       [name |-> "CODE_TEE_HARDWARE_MISMATCH", value |-> CODE_TEE_HARDWARE_MISMATCH],
       [name |-> "CODE_NO_SUCH_ENTITY", value |-> CODE_NO_SUCH_ENTITY],
       [name |-> "CODE_NO_SUCH_NODE", value |-> CODE_NO_SUCH_NODE],
       [name |-> "CODE_NO_SUCH_RUNTIME", value |-> CODE_NO_SUCH_RUNTIME],
       [name |-> "CODE_INCORRECT_TX_SIGNER", value |-> CODE_INCORRECT_TX_SIGNER],
       [name |-> "CODE_NODE_EXPIRED", value |-> CODE_NODE_EXPIRED],
       [name |-> "CODE_NODE_CANNOT_BE_UNFROZEN", value |-> CODE_NODE_CANNOT_BE_UNFROZEN],
       [name |-> "CODE_ENTITY_HAS_NODES", value |-> CODE_ENTITY_HAS_NODES],
       [name |-> "CODE_FORBIDDEN", value |-> CODE_FORBIDDEN],
       [name |-> "CODE_NODE_UPDATE_NOT_ALLOWED", value |-> CODE_NODE_UPDATE_NOT_ALLOWED],
       [name |-> "CODE_RUNTIME_UPDATE_NOT_ALLOWED", value |-> CODE_RUNTIME_UPDATE_NOT_ALLOWED],
       [name |-> "CODE_ENTITY_HAS_RUNTIMES", value |-> CODE_ENTITY_HAS_RUNTIMES]
    >>

ExportNames == {Exports[i].name : i \in 1..Len(Exports)}

Readers == 1..NumReaders

VARIABLES
    bindings,   \* the initialized bindings of the module: name -> value
    pc,         \* index into Exports of the next declaration to evaluate
    obs         \* per reader, the result of its latest lookup

vars == <<bindings, pc, obs>>

\* A reader that has not looked anything up yet.
NoObs == [name |-> "", defined |-> FALSE, value |-> 0]

\* Before the module is evaluated: no binding is initialized.
Init ==
    /\ bindings = [n \in {} |-> 0]
    /\ pc = 1
    /\ obs = [r \in Readers |-> NoObs]

\* Importers run once every declaration of the module has been evaluated.
\* Importers that start as soon as the first declaration is evaluated, as in
\* an import cycle.
LoadedEarly == pc > 1
Loaded == pc > Len(Exports)

\* Evaluate the next `export const` declaration.
Load ==
    /\ pc <= Len(Exports)
    /\ bindings' = (Exports[pc].name :> Exports[pc].value) @@ bindings
    /\ pc' = pc + 1
    /\ UNCHANGED obs

\* The result of reading the binding n: its value once initialized.  A
\* binding read before its declaration was evaluated has no value.
Lookup(n) ==
    IF n \in DOMAIN bindings
      THEN [name |-> n, defined |-> TRUE, value |-> bindings[n]]
      ELSE [name |-> n, defined |-> FALSE, value |-> 0]

\* A lookup that consumes what it reads, as a take from a mutable table
\* would: the binding is gone after the read.
ReadConsuming(r, n) ==
    /\ Loaded
    /\ obs' = [obs EXCEPT ![r] = Lookup(n)]
    /\ bindings' = [m \in DOMAIN bindings \ {n} |-> bindings[m]]
    /\ UNCHANGED pc

\* Reader r reads the exported binding n.  `export const` bindings have no
\* setter: the read is the only operation and it changes nothing but the
\* reader's own result.
Read(r, n) ==
    /\ Loaded
    /\ obs' = [obs EXCEPT ![r] = Lookup(n)]
    /\ UNCHANGED <<bindings, pc>>

Next ==
    \/ Load
    \/ \E r \in Readers, n \in ExportNames : Read(r, n)

Spec == Init /\ [][Next]_vars

(***************************************************************************)
(* Vocabulary of the properties.                                           *)
(***************************************************************************)

\* Largest integer offered to the governance range check.
MaxProbe == 5

Bound(n) == n \in DOMAIN bindings

StartsWith(s, p) == Len(s) >= Len(p) /\ SubSeq(s, 1, Len(p)) = p

EndsWith(s, p) == Len(s) >= Len(p) /\ SubSeq(s, Len(s) - Len(p) + 1, Len(s)) = p

DropPrefix(s, p) == SubSeq(s, Len(p) + 1, Len(s))

\* The exported names that start with p, as a set and in declaration order.
NamesWithPrefix(p) == {n \in ExportNames : StartsWith(n, p)}

DeclaredWithPrefix(p) ==
    SelectSeq([i \in 1..Len(Exports) |-> Exports[i].name],
              LAMBDA n : StartsWith(n, p))

\* The value each declaration gave its binding when the module was evaluated.
InitialValue(n) == Exports[CHOOSE i \in 1..Len(Exports) : Exports[i].name = n].value

UpperCase == "ABCDEFGHIJKLMNOPQRSTUVWXYZ"
LowerCase == "abcdefghijklmnopqrstuvwxyz"

\* The lower-case letter of each upper-case letter.
LowerOf ==
    [c \in {SubSeq(UpperCase, i, i) : i \in 1..Len(UpperCase)} |->
        LET i == CHOOSE j \in 1..Len(UpperCase) : SubSeq(UpperCase, j, j) = c
        IN  SubSeq(LowerCase, i, i)]

LowerChar(c) == IF c \in DOMAIN LowerOf THEN LowerOf[c] ELSE c

RECURSIVE ToLowerFrom(_, _)
ToLowerFrom(s, i) ==
    IF i > Len(s) THEN "" ELSE LowerChar(SubSeq(s, i, i)) \o ToLowerFrom(s, i + 1)

ToLower(s) == ToLowerFrom(s, 1)

RECURSIVE WithoutUnderscoresFrom(_, _)
WithoutUnderscoresFrom(s, i) ==
    IF i > Len(s) THEN ""
    ELSE (IF SubSeq(s, i, i) = "_" THEN "" ELSE SubSeq(s, i, i))
           \o WithoutUnderscoresFrom(s, i + 1)

WithoutUnderscores(s) == WithoutUnderscoresFrom(s, 1)

\* The name of the signing domain a context name stands for: a genesis
\* context stands for the domain of its non-genesis counterpart.
ContextKind(n) ==
    IF StartsWith(n, "REGISTER_GENESIS_")
      THEN "REGISTER_" \o DropPrefix(n, "REGISTER_GENESIS_")
      ELSE n

ContextNames == {n \in ExportNames : EndsWith(n, "_SIGNATURE_CONTEXT")}

GenesisContextNames == {n \in ContextNames : ContextKind(n) # n}

GovernanceNames == NamesWithPrefix("GOVERNANCE_")

KindNames == NamesWithPrefix("KIND_")

MethodNames == NamesWithPrefix("METHOD_")

ErrorCodeNames == DeclaredWithPrefix("CODE_")

GasOpNames == NamesWithPrefix("GAS_OP_")

\* For each gas operation, its symbolic name without GAS_OP_, lower-cased.
LowerCasedName == [n \in GasOpNames |-> ToLower(DropPrefix(n, "GAS_OP_"))]

\* The table as the declarations initialized it.
InitialTable == [n \in ExportNames |-> InitialValue(n)]

(***************************************************************************)
(* Properties.                                                             *)
(***************************************************************************)

\* C1: whenever a genesis signature context is bound, its non-genesis
\* counterpart is bound as well and both hold the same value; a reader of
\* the genesis name and a reader of the non-genesis name see the same value.
C1_AliasInvariant ==
    \A g \in GenesisContextNames :
        /\ Bound(g) => Bound(ContextKind(g)) /\ bindings[g] = bindings[ContextKind(g)]
        /\ \A r1, r2 \in Readers :
              obs[r1].name = g /\ obs[r2].name = ContextKind(g)
                  => obs[r1].value = obs[r2].value

C1_Witness ==
    /\ Loaded
    /\ Cardinality(GenesisContextNames) = 2
    /\ \E r1, r2 \in Readers :
          /\ obs[r1].name = "REGISTER_GENESIS_NODE_SIGNATURE_CONTEXT"
          /\ obs[r2].name = "REGISTER_NODE_SIGNATURE_CONTEXT"
          /\ obs[r1].defined /\ obs[r2].defined

\* C2: once bound, GOVERNANCE_MAX equals GOVERNANCE_CONSENSUS, equals 3, is
\* the largest of the non-sentinel governance values, and no governance value
\* exceeds it.
C2_GovernanceMax ==
    Bound("GOVERNANCE_MAX") =>
        LET max == bindings["GOVERNANCE_MAX"]
            members == GovernanceNames \ {"GOVERNANCE_INVALID", "GOVERNANCE_MAX"}
        IN  /\ max = bindings["GOVERNANCE_CONSENSUS"]
            /\ max = 3
            /\ members = {"GOVERNANCE_ENTITY", "GOVERNANCE_RUNTIME", "GOVERNANCE_CONSENSUS"}
            /\ \E m \in members : bindings[m] = max
            /\ \A n \in GovernanceNames : Bound(n) /\ bindings[n] <= max

C2_Witness ==
    /\ Loaded
    /\ \E r \in Readers : obs[r].name = "GOVERNANCE_MAX" /\ obs[r].value = 3

\* C3: the error codes are 19 pairwise distinct positive integers, they cover
\* 1..19, and the k-th declared code has the value k.
C3_ErrorCodes ==
    Loaded =>
        LET codes == ErrorCodeNames
        IN  /\ Len(codes) = 19
            /\ \A k \in 1..Len(codes) : bindings[codes[k]] = k
            /\ \A j, k \in 1..Len(codes) :
                  j # k => bindings[codes[j]] # bindings[codes[k]]
            /\ {bindings[codes[k]] : k \in 1..Len(codes)} = 1..19
            /\ codes[1] = "CODE_INVALID_ARGUMENT"
            /\ codes[19] = "CODE_ENTITY_HAS_RUNTIMES"

C3_Witness ==
    /\ Loaded
    /\ \E r1, r2 \in Readers :
          /\ obs[r1].name = "CODE_INVALID_ARGUMENT" /\ obs[r1].value = 1
          /\ obs[r2].name = "CODE_ENTITY_HAS_RUNTIMES" /\ obs[r2].value = 19

\* C4: there are five method names, each starts with MODULE_NAME followed by
\* a dot, which is "registry.", and the five values are pairwise distinct.
C4_MethodNames ==
    Loaded =>
        LET methods == MethodNames
            prefix == bindings["MODULE_NAME"] \o "."
        IN  /\ methods = {"METHOD_REGISTER_ENTITY", "METHOD_DEREGISTER_ENTITY",
                          "METHOD_REGISTER_NODE", "METHOD_UNFREEZE_NODE",
                          "METHOD_REGISTER_RUNTIME"}
            /\ prefix = "registry."
            /\ \A m \in methods :
                  StartsWith(bindings[m], prefix) /\ Len(bindings[m]) > Len(prefix)
            /\ \A m1, m2 \in methods : m1 # m2 => bindings[m1] # bindings[m2]

C4_Witness ==
    /\ Loaded
    /\ \E r1, r2 \in Readers :
          /\ obs[r1].name = "METHOD_UNFREEZE_NODE"
          /\ obs[r1].value = "registry.UnfreezeNode"
          /\ obs[r2].name = "MODULE_NAME"
          /\ obs[r2].value = "registry"

\* The reference table of the wire contract.
GoldenValues ==
    [ REGISTER_ENTITY_SIGNATURE_CONTEXT |-> "oasis-core/registry: register entity",
      REGISTER_GENESIS_ENTITY_SIGNATURE_CONTEXT |-> "oasis-core/registry: register entity",
      REGISTER_NODE_SIGNATURE_CONTEXT |-> "oasis-core/registry: register node",
      REGISTER_GENESIS_NODE_SIGNATURE_CONTEXT |-> "oasis-core/registry: register node",
      METHOD_REGISTER_ENTITY |-> "registry.RegisterEntity",
      METHOD_DEREGISTER_ENTITY |-> "registry.DeregisterEntity",
      METHOD_REGISTER_NODE |-> "registry.RegisterNode",
      METHOD_UNFREEZE_NODE |-> "registry.UnfreezeNode",
      METHOD_REGISTER_RUNTIME |-> "registry.RegisterRuntime",
      GAS_OP_REGISTER_ENTITY |-> "register_entity",
      GAS_OP_DEREGISTER_ENTITY |-> "deregister_entity",
      GAS_OP_REGISTER_NODE |-> "register_node",
      GAS_OP_UNFREEZE_NODE |-> "unfreeze_node",
      GAS_OP_REGISTER_RUNTIME |-> "register_runtime",
      GAS_OP_RUNTIME_EPOCH_MAINTENANCE |-> "runtime_epoch_maintenance",
      GAS_OP_UPDATEKEY_MANAGER |-> "update_keymanager",
      KIND_INVALID |-> 0,
      KIND_COMPUTE |-> 1,
      KIND_KEY_MANAGER |-> 2,
      GOVERNANCE_INVALID |-> 0,
      GOVERNANCE_ENTITY |-> 1,
      GOVERNANCE_RUNTIME |-> 2,
      GOVERNANCE_CONSENSUS |-> 3,
      GOVERNANCE_MAX |-> 3,
      LATEST_RUNTIME_DESCRIPTOR_VERSION |-> 2,
      MODULE_NAME |-> "registry",
      CODE_INVALID_ARGUMENT |-> 1,
      CODE_INVALID_SIGNATURE |-> 2,
      CODE_BAD_ENTITY_FOR_NODE |-> 3,
      CODE_BAD_ENTITY_FOR_RUNTIME |-> 4,
      CODE_NO_ENCLAVE_FOR_RUNTIME |-> 5,
      CODE_BAD_ENCLAVE_IDENTITY |-> 6,
      CODE_BAD_CAPABILITIES_TEE_HARDWARE |-> 7,
      CODE_TEE_HARDWARE_MISMATCH |-> 8,
      CODE_NO_SUCH_ENTITY |-> 9,
      CODE_NO_SUCH_NODE |-> 10,
      CODE_NO_SUCH_RUNTIME |-> 11,
      CODE_INCORRECT_TX_SIGNER |-> 12,
      CODE_NODE_EXPIRED |-> 13,
      CODE_NODE_CANNOT_BE_UNFROZEN |-> 14,
      CODE_ENTITY_HAS_NODES |-> 15,
      CODE_FORBIDDEN |-> 16,
      CODE_NODE_UPDATE_NOT_ALLOWED |-> 17,
      CODE_RUNTIME_UPDATE_NOT_ALLOWED |-> 18,
      CODE_ENTITY_HAS_RUNTIMES |-> 19 ]

\* C5: every binding holds the literal of the reference table, the loaded
\* table has exactly the names of the reference table, and every lookup by a
\* reader returns the reference literal of the name it asked for.
C5_GoldenValues ==
    /\ \A n \in DOMAIN bindings :
          n \in DOMAIN GoldenValues /\ bindings[n] = GoldenValues[n]
    /\ Loaded => DOMAIN bindings = DOMAIN GoldenValues
    /\ \A r \in Readers :
          obs[r] # NoObs =>
              /\ obs[r].defined
              /\ obs[r].name \in DOMAIN GoldenValues
              /\ obs[r].value = GoldenValues[obs[r].name]

C5_Witness ==
    /\ Loaded
    /\ Cardinality(DOMAIN bindings) = 45
    /\ \E r1, r2 \in Readers :
          /\ obs[r1].name = "LATEST_RUNTIME_DESCRIPTOR_VERSION" /\ obs[r1].value = 2
          /\ obs[r2].name = "GAS_OP_RUNTIME_EPOCH_MAINTENANCE"
          /\ obs[r2].value = "runtime_epoch_maintenance"

\* C6: no step rebinds or removes an initialized binding; once the module is
\* loaded no step changes the table at all (a read leaves it as it was); and
\* a reader that reads the same constant again gets the identical result.
C6_Immutability ==
    [][ /\ \A n \in DOMAIN bindings :
              n \in DOMAIN bindings' /\ bindings'[n] = bindings[n]
        /\ Loaded => bindings' = bindings /\ Loaded'
        /\ \A r \in Readers :
              obs[r] # NoObs /\ obs'[r].name = obs[r].name => obs'[r] = obs[r]
      ]_vars

C6_Witness ==
    /\ Loaded
    /\ DOMAIN bindings = ExportNames
    /\ \A r \in Readers : obs[r].name = "CODE_FORBIDDEN" /\ obs[r].value = 16

\* C7: readers that interleave freely agree: any two readers holding a result
\* for the same name hold the same result, every result is the value the
\* declaration gave its binding, and the loaded table is the initialized one.
C7_ReadersAgree ==
    /\ \A r1, r2 \in Readers :
          obs[r1].name = obs[r2].name => obs[r1] = obs[r2]
    /\ \A r \in Readers :
          obs[r] # NoObs =>
              obs[r].defined /\ obs[r].value = InitialTable[obs[r].name]
    /\ Loaded => bindings = InitialTable

C7_Witness ==
    /\ \A r1, r2 \in Readers : obs[r1] # NoObs /\ obs[r1].name = obs[r2].name
    /\ \E r1, r2 \in Readers : r1 # r2

\* C8 as stated: every gas operation's value is its symbolic name, lower-cased
\* and without the GAS_OP_ prefix, and the seven values are pairwise distinct.
C8_GasOpIsLowerCasedName ==
    Loaded =>
        LET ops == GasOpNames
        IN  /\ Cardinality(ops) = 7
            /\ \A n \in ops : bindings[n] = LowerCasedName[n]
            /\ \A n1, n2 \in ops : n1 # n2 => bindings[n1] # bindings[n2]

\* C8: there are seven gas operations with pairwise distinct values; the
\* value is the lower-cased symbolic name without the GAS_OP_ prefix for
\* every one but GAS_OP_UPDATEKEY_MANAGER, whose value is "update_keymanager":
\* it agrees with its lower-cased name up to the place of the underscore.
C8_GasOpMatchesName ==
    Loaded =>
        LET ops == GasOpNames
        IN  /\ Cardinality(ops) = 7
            /\ \A n \in ops \ {"GAS_OP_UPDATEKEY_MANAGER"} :
                  bindings[n] = LowerCasedName[n]
            /\ bindings["GAS_OP_UPDATEKEY_MANAGER"] = "update_keymanager"
            /\ \A n \in ops :
                  WithoutUnderscores(bindings[n])
                      = WithoutUnderscores(LowerCasedName[n])
            /\ \A n1, n2 \in ops : n1 # n2 => bindings[n1] # bindings[n2]

C8_Witness ==
    /\ Loaded
    /\ \E r1, r2 \in Readers :
          /\ obs[r1].name = "GAS_OP_UPDATEKEY_MANAGER"
          /\ obs[r1].value = "update_keymanager"
          /\ obs[r2].name = "GAS_OP_REGISTER_NODE"
          /\ obs[r2].value = "register_node"

\* C9: the sentinels are 0 and differ from every valid member; the valid
\* governance values are exactly 1..GOVERNANCE_MAX and the valid runtime kinds
\* exactly 1..2; the range check GOVERNANCE_INVALID < v <= GOVERNANCE_MAX
\* accepts exactly the values of Entity, Runtime and Consensus.
C9_RangeCheck ==
    Loaded =>
        LET gov == {bindings[n] : n \in {"GOVERNANCE_ENTITY", "GOVERNANCE_RUNTIME",
                                          "GOVERNANCE_CONSENSUS"}}
            kinds == {bindings[n] : n \in KindNames \ {"KIND_INVALID"}}
            accepted == {v \in (0 - MaxProbe)..MaxProbe :
                            bindings["GOVERNANCE_INVALID"] < v
                              /\ v <= bindings["GOVERNANCE_MAX"]}
        IN  /\ bindings["GOVERNANCE_INVALID"] = 0
            /\ bindings["KIND_INVALID"] = 0
            /\ bindings["GOVERNANCE_INVALID"] \notin gov
            /\ bindings["KIND_INVALID"] \notin kinds
            /\ Cardinality(gov) = 3
            /\ gov = 1..bindings["GOVERNANCE_MAX"]
            /\ kinds = 1..2
            /\ accepted = gov

C9_Witness ==
    /\ Loaded
    /\ MaxProbe > bindings["GOVERNANCE_MAX"]
    /\ \E r1, r2 \in Readers :
          /\ obs[r1].name = "GOVERNANCE_INVALID" /\ obs[r1].value = 0
          /\ obs[r2].name = "GOVERNANCE_MAX" /\ obs[r2].value = 3

\* C10: the four context names have exactly two values; two context names
\* have the same value exactly when they are of the same kind (equal, or a
\* genesis/non-genesis pair); and the context a signer read equals the context
\* a verifier read exactly when the two names are of the same kind, so an
\* entity context never matches a node context.
C10_DomainSeparation ==
    Loaded =>
        /\ Cardinality(ContextNames) = 4
        /\ Cardinality({bindings[n] : n \in ContextNames}) = 2
        /\ \A a, b \in ContextNames :
              (bindings[a] = bindings[b]) <=> (ContextKind(a) = ContextKind(b))
        /\ \A signer, verifier \in Readers :
              obs[signer].name \in ContextNames /\ obs[verifier].name \in ContextNames
                  => ((obs[signer].value = obs[verifier].value)
                        <=> (ContextKind(obs[signer].name) = ContextKind(obs[verifier].name)))

C10_Witness ==
    /\ Loaded
    /\ \E signer, verifier \in Readers :
          /\ obs[signer].name = "REGISTER_GENESIS_ENTITY_SIGNATURE_CONTEXT"
          /\ obs[verifier].name = "REGISTER_NODE_SIGNATURE_CONTEXT"
          /\ obs[signer].value # obs[verifier].value

====
